---------------------------- MODULE Spec2Model ----------------------------
(***************************************************************************)
(* A model of snippext/baseline.py: the epoch loop of initialize_and_train *)
(* (set-up, train, evaluation, best-score ledger, checkpoints, close) and  *)
(* the batch loop of train (loss routing, backward pass, optimizer step,   *)
(* diagnostics).                                                           *)
(*                                                                         *)
(* Scores are F1 values in tenths (7 stands for 0.7).  A model state is    *)
(* named by the number of train() passes that produced it; a checkpoint    *)
(* file holds such a number, or 0 while the file does not exist.          *)
(*                                                                         *)
(* Two specifications share the variables.  SpecRun follows the epoch loop *)
(* with train() as one step; SpecTrain follows the set-up and one call of  *)
(* train() statement by statement.                                         *)
(***************************************************************************)
EXTENDS Integers, Sequences, FiniteSets, TLC

VARIABLES
    pc,            \* position in initialize_and_train
    n_epochs,      \* hp.n_epochs
    save_model,    \* hp.save_model
    epoch,         \* the loop variable of line 142 (0 before the loop)
    model,         \* the model state: number of train() passes applied
    best_dev_f1,   \* best-validation watermark
    best_test_f1,  \* best-test watermark
    dev_f1,        \* validation score of the current epoch
    test_f1,       \* test score of the current epoch
    devHist,       \* history: validation scores returned so far
    testHist,      \* history: test scores returned so far
    ckptDev,       \* content of run_tag + '_dev.pt'
    ckptTest,      \* content of run_tag + '_test.pt'
    devWrites,     \* history: epochs in which '_dev.pt' was written
    testWrites,    \* history: epochs in which '_test.pt' was written
    writer,        \* the SummaryWriter: "none", "open" or "closed"
    closeCount,    \* history: number of writer.close() calls
    phaseLog,      \* history: <<phase, epoch>> of every train and eval phase
    device,        \* 'cuda' or 'cpu' (torch.cuda.is_available())
    fp16,          \* hp.fp16
    taskname,      \* task_config['name'], a sequence of characters
    task_type,     \* task_config['task_type']
    nbatches,      \* number of batches the training DataLoader yields
    ampInitialized,\* whether amp.initialize was called
    tpc,           \* position in train
    i,             \* the batch index of line 41
    criterion,     \* the criterion chosen for the current batch
    events,        \* history: <<operation, batch index>> performed by train
    optSteps,      \* number of optimizer.step() calls
    trainingMode   \* whether model.train() was called

runVars == <<pc, n_epochs, save_model, epoch, model, best_dev_f1, best_test_f1,
             dev_f1, test_f1, devHist, testHist, ckptDev, ckptTest, devWrites,
             testWrites, writer, closeCount, phaseLog>>

trainVars == <<device, fp16, taskname, task_type, nbatches, ampInitialized,
               tpc, i, criterion, events, optSteps, trainingMode>>

vars == <<runVars, trainVars>>

(***************************************************************************)
(* Bounds of the model.                                                    *)
(***************************************************************************)
MaxEpochs == 3

MaxScore == 7

MaxBatches == 3

\* F1 scores in tenths: 0.0 and 0.5 .. MaxScore/10.
ScoreSet == {0} \cup (5..MaxScore)

(***************************************************************************)
(* Task names are sequences of characters, so that the substring test of   *)
(* line 47 is computed as Python computes it.                              *)
(***************************************************************************)
TaggingMarker == <<"t", "a", "g", "g", "i", "n", "g">>

NameStems == { <<>>, <<"h", "_">>, <<"n", "o", "n">> }

NameCores == { TaggingMarker, <<"c", "l", "s">>, <<"t", "a", "g">> }

NameTails == { <<>>, <<"_", "2">> }

TaskNames == { s \o c \o t : s \in NameStems, c \in NameCores, t \in NameTails }

TaskTypes == { "tagging", "classification" }

\* Python's `marker in name` on strings.
Contains(name, marker) ==
    \E k \in 1..(Len(name) - Len(marker) + 1) :
        SubSeq(name, k, k + Len(marker) - 1) = marker

\* Lines 47-50: the criterion chosen for a batch of the task `name`.
CriterionByTaskName(name) ==
    IF Contains(name, TaggingMarker) THEN "tagging_criterion"
                                     ELSE "classifier_criterion"

\* Variant of HasNextBatch: the iterator stops one batch early.
SkipLastBatch(idx, k) == idx + 1 < k

\* Line 41: whether the iterator yields a batch with index `idx`.
HasNextBatch(idx, k) == idx < k

\* Line 67: whether the sanity-check dump is printed for batch `idx`.
SanityDue(idx) == idx = 0

\* Line 84: the period of the progress line.
MonitorEvery == 10

MonitorDue(idx) == idx % MonitorEvery = 0

\* Line 60: which backward pass a step takes.
BackwardKind(flag) == IF flag THEN "scaled_backward" ELSE "backward"

\* Lines 127-133: whether amp.initialize is called.
AmpEstablished(dev, flag) == dev # "cpu" /\ flag

\* Line 141: the initial value of both watermarks (0.0).
InitialBest == 0

\* Variant of LoopContinues: the range of line 142 is one epoch too long.
OneEpochMore(e, n) == e <= n

\* Line 142: whether range(1, n_epochs+1) yields another epoch after epoch e.
LoopContinues(e, n) == e < n

\* Variant of SaveEnabled: the test of line 160 is dropped.
SaveAlways(flag) == TRUE

\* Line 160: whether the ledger and the checkpoints are touched at all.
SaveEnabled(flag) == flag

\* Variant of Exceeds: the comparison is not strict.
ExceedsOrEquals(score, best) == score >= best

\* Lines 161 and 164: the comparison against a watermark.
Exceeds(score, best) == score > best

\* Variant of NewBestDev: the watermark is not updated.
KeepOldBestDev(dev, old) == old

\* Line 162: the value recorded into the validation watermark.
NewBestDev(dev, old) == dev

\* Variant of NewBestTest: the test score is recorded.
BestTestFromTest(dev, test) == test

\* Line 165: the value recorded into the test watermark.
NewBestTest(dev, test) == dev

(***************************************************************************)
(* Initial states.                                                         *)
(***************************************************************************)
RunStart ==
    /\ pc = "INIT"
    /\ epoch = 0
    /\ model = 0
    /\ best_dev_f1 = 0
    /\ best_test_f1 = 0
    /\ dev_f1 = 0
    /\ test_f1 = 0
    /\ devHist = <<>>
    /\ testHist = <<>>
    /\ ckptDev = 0
    /\ ckptTest = 0
    /\ devWrites = <<>>
    /\ testWrites = <<>>
    /\ writer = "none"
    /\ closeCount = 0
    /\ phaseLog = <<>>
    /\ ampInitialized = FALSE
    /\ tpc = "idle"
    /\ i = 0
    /\ criterion = "none"
    /\ events = <<>>
    /\ optSteps = 0
    /\ trainingMode = FALSE

\* The epoch loop: every epoch count and both settings of --save_model.
InitRun ==
    /\ RunStart
    /\ n_epochs \in 0..MaxEpochs
    /\ save_model \in BOOLEAN
    /\ device = "cuda"
    /\ fp16 = FALSE
    /\ taskname = <<"h", "_">> \o TaggingMarker
    /\ task_type = "tagging"
    /\ nbatches = 1

\* One call of train: every device, --fp16, task configuration and size.
InitTrain ==
    /\ RunStart
    /\ n_epochs = 1
    /\ save_model = FALSE
    /\ device \in {"cpu", "cuda"}
    /\ fp16 \in BOOLEAN
    /\ taskname \in TaskNames
    /\ task_type \in TaskTypes
    /\ nbatches \in 0..MaxBatches

(***************************************************************************)
(* initialize_and_train                                                    *)
(***************************************************************************)
\* Lines 107-141: iterators, model, optimizer, amp, writer, watermarks.
Setup ==
    /\ pc = "INIT"
    /\ ampInitialized' = AmpEstablished(device, fp16)
    /\ writer' = "open"
    /\ best_dev_f1' = InitialBest
    /\ best_test_f1' = InitialBest
    /\ pc' = "LOOP"
    /\ UNCHANGED <<n_epochs, save_model, epoch, model, dev_f1, test_f1,
                   devHist, testHist, ckptDev, ckptTest, devWrites,
                   testWrites, closeCount, phaseLog>>
    /\ UNCHANGED <<device, fp16, taskname, task_type, nbatches, tpc, i,
                   criterion, events, optSteps, trainingMode>>

\* Lines 142-147 with the call of train taken as one step.
TrainEpoch ==
    /\ pc = "LOOP"
    /\ LoopContinues(epoch, n_epochs)
    /\ epoch' = epoch + 1
    /\ phaseLog' = Append(phaseLog, <<"train", epoch + 1>>)
    /\ trainingMode' = TRUE
    /\ optSteps' = optSteps + nbatches
    /\ model' = model + 1
    /\ pc' = "EVAL"
    /\ UNCHANGED <<n_epochs, save_model, best_dev_f1, best_test_f1, dev_f1,
                   test_f1, devHist, testHist, ckptDev, ckptTest, devWrites,
                   testWrites, writer, closeCount>>
    /\ UNCHANGED <<device, fp16, taskname, task_type, nbatches,
                   ampInitialized, tpc, i, criterion, events>>

\* Lines 149-158: eval_on_task returns the two scores of the epoch.
Evaluate ==
    /\ pc = "EVAL"
    /\ \E d \in ScoreSet, t \in ScoreSet :
          /\ dev_f1' = d
          /\ test_f1' = t
          /\ devHist' = Append(devHist, d)
          /\ testHist' = Append(testHist, t)
    /\ phaseLog' = Append(phaseLog, <<"eval", epoch>>)
    /\ pc' = "CKPT"
    /\ UNCHANGED <<n_epochs, save_model, epoch, model, best_dev_f1,
                   best_test_f1, ckptDev, ckptTest, devWrites, testWrites,
                   writer, closeCount>>
    /\ UNCHANGED trainVars

\* Lines 160-166: the ledger update and the checkpoint writes.
Checkpoint ==
    /\ pc = "CKPT"
    /\ IF SaveEnabled(save_model) /\ Exceeds(dev_f1, best_dev_f1)
          THEN /\ best_dev_f1' = NewBestDev(dev_f1, best_dev_f1)
               /\ ckptDev' = model
               /\ devWrites' = Append(devWrites, epoch)
          ELSE UNCHANGED <<best_dev_f1, ckptDev, devWrites>>
    /\ IF SaveEnabled(save_model) /\ Exceeds(test_f1, best_test_f1)
          THEN /\ best_test_f1' = NewBestTest(dev_f1, test_f1)
               /\ ckptTest' = model
               /\ testWrites' = Append(testWrites, epoch)
          ELSE UNCHANGED <<best_test_f1, ckptTest, testWrites>>
    /\ pc' = "LOOP"
    /\ UNCHANGED <<n_epochs, save_model, epoch, model, dev_f1, test_f1,
                   devHist, testHist, writer, closeCount, phaseLog>>
    /\ UNCHANGED trainVars

\* Line 168, reached when the range of line 142 is exhausted.
Close ==
    /\ pc = "LOOP"
    /\ ~LoopContinues(epoch, n_epochs)
    /\ writer' = "closed"
    /\ closeCount' = closeCount + 1
    /\ pc' = "CLOSED"
    /\ UNCHANGED <<n_epochs, save_model, epoch, model, best_dev_f1,
                   best_test_f1, dev_f1, test_f1, devHist, testHist, ckptDev,
                   ckptTest, devWrites, testWrites, phaseLog>>
    /\ UNCHANGED trainVars

NextRun == Setup \/ TrainEpoch \/ Evaluate \/ Checkpoint \/ Close

SpecRun == InitRun /\ [][NextRun]_vars

\* The loop runs in one thread and every statement terminates.
FairSpecRun == SpecRun /\ WF_vars(NextRun)

(***************************************************************************)
(* train                                                                   *)
(***************************************************************************)
Emit(op) == Append(events, <<op, i>>)

\* Lines 142-147 and 31-40: the call, the DataLoader, model.train().
TrainCall ==
    /\ pc = "LOOP"
    /\ LoopContinues(epoch, n_epochs)
    /\ epoch' = epoch + 1
    /\ phaseLog' = Append(phaseLog, <<"train", epoch + 1>>)
    /\ trainingMode' = TRUE
    /\ i' = 0
    /\ criterion' = "none"
    /\ pc' = "TRAIN"
    /\ tpc' = "fetch"
    /\ UNCHANGED <<n_epochs, save_model, model, best_dev_f1, best_test_f1,
                   dev_f1, test_f1, devHist, testHist, ckptDev, ckptTest,
                   devWrites, testWrites, writer, closeCount>>
    /\ UNCHANGED <<device, fp16, taskname, task_type, nbatches,
                   ampInitialized, events, optSteps>>

\* Lines 41-44: the next batch of the iterator.
FetchBatch ==
    /\ pc = "TRAIN" /\ tpc = "fetch"
    /\ HasNextBatch(i, nbatches)
    /\ tpc' = "route"
    /\ UNCHANGED runVars
    /\ UNCHANGED <<device, fp16, taskname, task_type, nbatches,
                   ampInitialized, i, criterion, events, optSteps,
                   trainingMode>>

\* Lines 47-50.
Route ==
    /\ pc = "TRAIN" /\ tpc = "route"
    /\ criterion' = CriterionByTaskName(taskname)
    /\ tpc' = "zero_grad"
    /\ UNCHANGED runVars
    /\ UNCHANGED <<device, fp16, taskname, task_type, nbatches,
                   ampInitialized, i, events, optSteps, trainingMode>>

\* Line 53.
ZeroGrad ==
    /\ pc = "TRAIN" /\ tpc = "zero_grad"
    /\ events' = Emit("zero_grad")
    /\ tpc' = "forward"
    /\ UNCHANGED runVars
    /\ UNCHANGED <<device, fp16, taskname, task_type, nbatches,
                   ampInitialized, i, criterion, optSteps, trainingMode>>

\* Lines 54-56.
Forward ==
    /\ pc = "TRAIN" /\ tpc = "forward"
    /\ events' = Emit("forward")
    /\ tpc' = "loss"
    /\ UNCHANGED runVars
    /\ UNCHANGED <<device, fp16, taskname, task_type, nbatches,
                   ampInitialized, i, criterion, optSteps, trainingMode>>

\* Line 57.
Loss ==
    /\ pc = "TRAIN" /\ tpc = "loss"
    /\ events' = Emit("loss")
    /\ tpc' = "backward"
    /\ UNCHANGED runVars
    /\ UNCHANGED <<device, fp16, taskname, task_type, nbatches,
                   ampInitialized, i, criterion, optSteps, trainingMode>>

\* Lines 60-64.
Backward ==
    /\ pc = "TRAIN" /\ tpc = "backward"
    /\ events' = Emit(BackwardKind(fp16))
    /\ tpc' = "step"
    /\ UNCHANGED runVars
    /\ UNCHANGED <<device, fp16, taskname, task_type, nbatches,
                   ampInitialized, i, criterion, optSteps, trainingMode>>

\* Line 65.
OptimizerStep ==
    /\ pc = "TRAIN" /\ tpc = "step"
    /\ events' = Emit("step")
    /\ optSteps' = optSteps + 1
    /\ tpc' = "sanity"
    /\ UNCHANGED runVars
    /\ UNCHANGED <<device, fp16, taskname, task_type, nbatches,
                   ampInitialized, i, criterion, trainingMode>>

\* Lines 67-82.
SanityCheck ==
    /\ pc = "TRAIN" /\ tpc = "sanity"
    /\ events' = IF SanityDue(i) THEN Emit("sanity") ELSE events
    /\ tpc' = "monitor"
    /\ UNCHANGED runVars
    /\ UNCHANGED <<device, fp16, taskname, task_type, nbatches,
                   ampInitialized, i, criterion, optSteps, trainingMode>>

\* Lines 84-86, then back to line 41 with the next index.
Monitor ==
    /\ pc = "TRAIN" /\ tpc = "monitor"
    /\ events' = IF MonitorDue(i) THEN Emit("monitor") ELSE events
    /\ i' = i + 1
    /\ tpc' = "fetch"
    /\ UNCHANGED runVars
    /\ UNCHANGED <<device, fp16, taskname, task_type, nbatches,
                   ampInitialized, criterion, optSteps, trainingMode>>

\* Line 41 with the iterator exhausted: train returns to line 149.
TrainReturn ==
    /\ pc = "TRAIN" /\ tpc = "fetch"
    /\ ~HasNextBatch(i, nbatches)
    /\ tpc' = "returned"
    /\ model' = model + 1
    /\ pc' = "EVAL"
    /\ UNCHANGED <<n_epochs, save_model, epoch, best_dev_f1, best_test_f1,
                   dev_f1, test_f1, devHist, testHist, ckptDev, ckptTest,
                   devWrites, testWrites, writer, closeCount, phaseLog>>
    /\ UNCHANGED <<device, fp16, taskname, task_type, nbatches,
                   ampInitialized, i, criterion, events, optSteps,
                   trainingMode>>

NextTrain ==
    \/ Setup
    \/ TrainCall
    \/ FetchBatch
    \/ Route
    \/ ZeroGrad
    \/ Forward
    \/ Loss
    \/ Backward
    \/ OptimizerStep
    \/ SanityCheck
    \/ Monitor
    \/ TrainReturn

SpecTrain == InitTrain /\ [][NextTrain]_vars

(***************************************************************************)
(* Properties of the epoch loop (SpecRun, FairSpecRun).                    *)
(***************************************************************************)
\* A step of Checkpoint: lines 160-166 have just run.
CheckpointStep == pc = "CKPT" /\ pc' = "LOOP"

DevWritten == devWrites' # devWrites

TestWritten == testWrites' # testWrites

\* C1 as stated: the best-validation watermark never decreases, and the
\* '_dev' checkpoint is written in an epoch exactly when that epoch's
\* validation score is strictly greater than the watermark before the epoch.
C1_WriteIffExceeds ==
    [][ /\ best_dev_f1' >= best_dev_f1
        /\ CheckpointStep => (DevWritten <=> dev_f1 > best_dev_f1) ]_vars

\* C1 amended: the best-validation watermark never decreases, and the '_dev'
\* checkpoint is written in an epoch exactly when checkpointing is enabled
\* and that epoch's validation score is strictly greater than the watermark
\* before the epoch.
C1_WriteIffSavingAndExceeds ==
    [][ /\ best_dev_f1' >= best_dev_f1
        /\ CheckpointStep =>
              (DevWritten <=> (save_model /\ dev_f1 > best_dev_f1)) ]_vars

\* C1 witness: with checkpointing on, epoch 1 wrote '_dev' and epoch 2, whose
\* score did not exceed the watermark, did not.
C1_Witness ==
    /\ pc = "LOOP" /\ save_model /\ epoch = 2
    /\ devWrites = <<1>>
    /\ devHist[2] <= devHist[1]

\* C2 as stated: the best-test watermark never decreases; whenever it is
\* replaced, the new value is strictly greater than the value it replaces.
C2_BestTestMonotone ==
    [][ best_test_f1' # best_test_f1 => best_test_f1' > best_test_f1 ]_vars

\* A finished run of three epochs, checkpointing on, that scored 0.5, 0.7, 0.6
\* on validation.
C3_Scenario == pc = "CLOSED" /\ n_epochs = 3 /\ save_model /\ devHist = <<5, 7, 6>>

\* C3 as stated: with n_epochs = 3, checkpointing on and validation scores
\* 0.5, 0.7, 0.6, the run writes '_dev' exactly once, at epoch 2, and ends
\* with the best-validation watermark at 0.7.
C3_OneWriteAtEpoch2 ==
    C3_Scenario => (devWrites = <<2>> /\ best_dev_f1 = 7)

\* C3 amended: in that run '_dev' is written exactly twice, at epochs 1 and
\* 2 (epoch 2 being the last write), and the best-validation watermark ends
\* at 0.7.
C3_WritesAtEpochs1And2 ==
    C3_Scenario => (devWrites = <<1, 2>> /\ ckptDev = 2 /\ best_dev_f1 = 7)

\* C3 witness: the scenario's run has closed.
C3_Witness == C3_Scenario /\ closeCount = 1

\* C4 as stated: whenever an epoch's validation score strictly exceeds the
\* best-validation watermark, the watermark becomes that score, checkpointing
\* enabled or not; only the write of '_dev' depends on checkpointing.
C4_WatermarkAlwaysUpdated ==
    [][ CheckpointStep =>
          /\ (dev_f1 > best_dev_f1 => best_dev_f1' = dev_f1)
          /\ (DevWritten => save_model) ]_vars

\* C4 amended: when an epoch's validation score strictly exceeds the
\* best-validation watermark and checkpointing is enabled, the watermark
\* becomes that score and '_dev' is written with the current model state;
\* with checkpointing disabled neither the watermark nor '_dev' changes.
C4_WatermarkUpdatedOnlyWhenSaving ==
    [][ CheckpointStep =>
          IF save_model /\ dev_f1 > best_dev_f1
             THEN best_dev_f1' = dev_f1 /\ ckptDev' = model /\ DevWritten
             ELSE UNCHANGED <<best_dev_f1, ckptDev, devWrites>> ]_vars

\* C4 witness: checkpointing is off, an epoch scored above the watermark and
\* the watermark is still at its initial value.
C4_Witness ==
    /\ pc = "LOOP" /\ ~save_model /\ epoch >= 1
    /\ dev_f1 > best_dev_f1
    /\ best_dev_f1 = 0 /\ ckptDev = 0

\* C5: with checkpointing enabled, an epoch whose test score strictly exceeds
\* the best-test watermark writes '_test' and sets the watermark to that
\* epoch's validation score; otherwise neither the watermark nor '_test'
\* changes.
C5_TestWatermarkTakesDevScore ==
    [][ (CheckpointStep /\ save_model) =>
          IF test_f1 > best_test_f1
             THEN best_test_f1' = dev_f1 /\ ckptTest' = model /\ TestWritten
             ELSE UNCHANGED <<best_test_f1, ckptTest, testWrites>> ]_vars

\* C5 witness: '_test' was written in epoch 1 and the watermark holds that
\* epoch's validation score, which differs from its test score; epoch 2 did
\* not beat the watermark and wrote nothing.
C5_Witness ==
    /\ pc = "LOOP" /\ save_model /\ epoch = 2
    /\ testWrites = <<1>> /\ ckptTest = 1
    /\ best_test_f1 = devHist[1] /\ devHist[1] # testHist[1]
    /\ testHist[2] <= best_test_f1

\* The phase that must stand at position k of the log of a run, and its epoch.
ExpectedPhase(k) == << IF k % 2 = 1 THEN "train" ELSE "eval", (k + 1) \div 2 >>

PhasesAlternate ==
    /\ Len(phaseLog) <= 2 * n_epochs
    /\ \A k \in 1..Len(phaseLog) : phaseLog[k] = ExpectedPhase(k)

ClosedOnceAtEnd ==
    /\ closeCount = (IF pc = "CLOSED" THEN 1 ELSE 0)
    /\ pc = "CLOSED" => (writer = "closed" /\ Len(phaseLog) = 2 * n_epochs)
    /\ pc # "CLOSED" => writer # "closed"

\* C6: a run with n_epochs = N >= 0 is INIT, then N times (train, then
\* evaluation) with epoch numbers 1..N, then CLOSE: the phases alternate
\* starting with train, the writer is closed exactly once and only after the
\* N-th evaluation (right after INIT when N = 0), nothing happens after
\* CLOSE, and the run eventually reaches CLOSE.
C6_RunShape ==
    /\ [](PhasesAlternate /\ ClosedOnceAtEnd)
    /\ [][pc # "CLOSED"]_vars
    /\ <>(pc = "CLOSED")

\* C6 witness: a run of two epochs has closed after train, eval, train, eval.
C6_Witness ==
    /\ pc = "CLOSED" /\ n_epochs = 2 /\ closeCount = 1
    /\ phaseLog = << <<"train", 1>>, <<"eval", 1>>, <<"train", 2>>, <<"eval", 2>> >>

\* The greatest score of a non-empty history and the first epoch attaining it.
MaxOf(h) == CHOOSE m \in { h[k] : k \in 1..Len(h) } : \A k \in 1..Len(h) : h[k] <= m

EarliestBest(h) == CHOOSE e \in 1..Len(h) :
                      /\ h[e] = MaxOf(h)
                      /\ \A k \in 1..(e - 1) : h[k] < MaxOf(h)

\* What a best-checkpoint file must hold after the epochs of history h: nothing
\* while no score exceeded 0.0, else the model state of the first best epoch.
BestCheckpoint(h) ==
    IF \E k \in 1..Len(h) : h[k] > 0 THEN EarliestBest(h) ELSE 0

\* C10 as stated: with checkpointing enabled, after every epoch '_dev' exists
\* iff some validation score so far exceeded 0.0, it then holds the model
\* state of the earliest epoch attaining the maximum validation score so far,
\* and best_dev_f1 is that maximum; likewise '_test' holds the model state of
\* the earliest epoch attaining the maximum test score so far.
C10_CheckpointsHoldEarliestBest ==
    (save_model /\ pc \in {"LOOP", "CLOSED"} /\ epoch >= 1) =>
        /\ ckptDev = BestCheckpoint(devHist)
        /\ ckptDev # 0 => best_dev_f1 = MaxOf(devHist)
        /\ ckptTest = BestCheckpoint(testHist)

(***************************************************************************)
(* Properties of train (SpecTrain).                                        *)
(***************************************************************************)
\* The criterion the declared task type calls for.
CriterionByTaskType(type) ==
    IF type = "tagging" THEN "tagging_criterion" ELSE "classifier_criterion"

\* C7 as stated: for every task name, the criterion train selects is the one
\* of the task's declared type: ignore-index-0 for tagging, standard
\* cross-entropy for every other type.
C7_CriterionFollowsTaskType ==
    criterion # "none" => criterion = CriterionByTaskType(task_type)

IsBackward(op) == op \in {"backward", "scaled_backward"}

\* C8 as stated: for every device and --fp16 setting, a backward pass goes
\* through the loss-scaling context iff amp.initialize was called at set-up.
C8_ScaledIffAmpInitialized ==
    \A k \in 1..Len(events) :
        IsBackward(events[k][1]) =>
            (events[k][1] = "scaled_backward" <=> ampInitialized)

\* The operations of batch b among the events, both backward passes alike.
StepOps == {"zero_grad", "forward", "loss", "backward", "scaled_backward", "step"}

OpsOfBatch(b) ==
    LET sel == SelectSeq(events, LAMBDA e : e[2] = b /\ e[1] \in StepOps)
    IN  [k \in 1..Len(sel) |-> IF IsBackward(sel[k][1]) THEN "backward" ELSE sel[k][1]]

OneStep == <<"zero_grad", "forward", "loss", "backward", "step">>

CountOf(op) == Cardinality({ k \in 1..Len(events) : events[k][1] = op })

\* C9: one call of train over k batches performs the k training steps in
\* source order, each one clear-gradients, forward, loss, backward, optimizer
\* step, so that the optimizer's step count grows by k; the sanity dump is
\* emitted for batch 0 only, right after its optimizer step; with k = 0 the
\* call returns with no step and no output.
C9_OneStepPerBatch ==
    /\ \A k \in 1..Len(events) : events[k][2] \in 0..(nbatches - 1)
    /\ \A k \in 1..(Len(events) - 1) : events[k][2] <= events[k + 1][2]
    /\ \A b \in 0..(nbatches - 1) :
          /\ Len(OpsOfBatch(b)) <= Len(OneStep)
          /\ OpsOfBatch(b) = SubSeq(OneStep, 1, Len(OpsOfBatch(b)))
    /\ optSteps = CountOf("step")
    /\ \A k \in 1..Len(events) :
          events[k][1] = "sanity" => (k > 1 /\ events[k] = <<"sanity", 0>>
                                            /\ events[k - 1] = <<"step", 0>>)
    /\ tpc = "returned" =>
          /\ optSteps = nbatches
          /\ \A b \in 0..(nbatches - 1) : OpsOfBatch(b) = OneStep
          /\ CountOf("sanity") = (IF nbatches = 0 THEN 0 ELSE 1)
          /\ nbatches = 0 => events = <<>>

\* C9 witness: a call over two batches has returned after two optimizer
\* steps and one sanity dump.
C9_Witness ==
    /\ tpc = "returned" /\ nbatches = 2 /\ optSteps = 2
    /\ CountOf("sanity") = 1

=============================================================================
